---- MODULE Spec2Model ----
(***************************************************************************)
(* Aura Clip (src/app.py): the asynchronous job subsystem of AuraClipApp.  *)
(* One caller (GUI) thread owns the window state; detect_scenes and        *)
(* export_clips each start a QThread with a Worker whose signals are       *)
(* handled by the closures on_progress / on_export_progress / on_finished. *)
(* Times are in centiseconds (0.05 s = 5).                                 *)
(***************************************************************************)
EXTENDS Integers, Sequences, FiniteSets, TLC

\* ---------------------------------------------------------------- bounds
\* QThread/Worker pairs created in one run of the application
MaxJobs == 2
\* rows a run-log store holds when _log_run is applied on its own (LogSpec)
MaxLogRows == 2

\* rows the user has ticked when an export is followed on its own (ExportSpec)
MaxChecked == 2

\* ------------------------------------------------------- program constants
MinSegment == 5

NoFile == ""
Files == {"a.mp4"}
\* what get_media_info can report for a file: 0 on a failed probe
Durations == {0, 950}
\* what the detector collaborator can return (start, end) in centiseconds
DetectorOutputs == { <<>>, << <<0, 1000>> >> }
Kinds == {"detect", "export"}
\* where an I/O operation of _log_run can fail
IOFaults == {"none", "mkdir", "json_read", "json_open", "json_dump", "csv"}
\* the faults injected while a terminal handler logs; the faults of the two
\* store writes are explored where _log_run is applied on its own (LogSpec)
HandlerFaults == {"none", "mkdir"}
\* what export_clips finds at ./exports: a directory it can write to (made by
\* os.makedirs if need be), a directory without write permission, or a path at
\* which os.makedirs raises (the parent is read-only, or exports is a file)
ExportDirStates == {"writable", "readonly", "uncreatable"}

VARIABLES
  SCENEDETECT_AVAILABLE, \* module global set by the import shim
  current_file,          \* self.current_file (NoFile models None)
  media_duration,        \* self._media_duration
  current_scenes,        \* self.current_scenes (<<>> models None and [])
  scene_list,            \* rows of self.scene_list
  ffmpeg_ok_result,      \* self._ffmpeg_ok_result: "None", "True", "False"
  detect_enabled,        \* self.detect_action.isEnabled()
  export_enabled,        \* self.export_action.isEnabled()
  progress,              \* self.progress: visible, maximum, value (minimum is 0)
  cursor,                \* depth of QApplication's override-cursor stack
  jobs,                  \* every QThread/Worker pair created so far
  detect_thread,         \* self._detect_thread: 0 (unset) or a job number
  export_thread,         \* self._export_thread
  runs,                  \* runs/<kind>_log.json and runs/<kind>_log.csv
  log_status,            \* how the last _log_run call ended
  app_state              \* "running"; "closing" after closeEvent; "aborted" after
                         \* an exception has left a slot of AuraClipApp

vars == << SCENEDETECT_AVAILABLE, current_file, media_duration, current_scenes,
           scene_list, ffmpeg_ok_result, detect_enabled, export_enabled,
           progress, cursor, jobs, detect_thread, export_thread, runs,
           log_status, app_state >>

\* ---------------------------------------------------------------- helpers
Min(a, b) == IF a <= b THEN a ELSE b
Max(a, b) == IF a >= b THEN a ELSE b

JobIds == 1..Len(jobs)

\* QProgressBar.setRange: a value outside the new range is reset to minimum-1
SetRange(p, mx) ==
  [p EXCEPT !.maximum = mx,
            !.value = IF p.value < -1 \/ p.value > mx THEN -1 ELSE p.value]

\* QProgressBar.setValue: ignored when out of range unless the range is (0, 0)
SetValue(p, v) ==
  IF (v > p.maximum \/ v < 0) /\ p.maximum # 0 THEN p ELSE [p EXCEPT !.value = v]

_progress_busy(p) == SetRange([p EXCEPT !.visible = TRUE], 0)

_progress_steps(p, total) ==
  SetValue(SetRange([p EXCEPT !.visible = TRUE], Max(1, total)), 0)

_progress_done(p) == SetValue(SetRange([p EXCEPT !.visible = FALSE], 1), 0)

\* QApplication.restoreOverrideCursor: a no-op on an empty stack
restoreOverrideCursor(c) == Max(0, c - 1)

\* the caller-visible state the restore paths write
Ui == [de |-> detect_enabled, ee |-> export_enabled, pr |-> progress, cur |-> cursor]

\* _clamp_range ordering the pair without clamping it to [0, duration]
_clamp_range_unclamped(start_s, end_s, duration) ==
  IF end_s < start_s THEN <<end_s, start_s>> ELSE <<start_s, end_s>>

_clamp_range(start_s, end_s, duration) ==
  LET s == Max(0, Min(start_s, duration))
      e == Max(0, Min(end_s, duration))
  IN  IF e < s THEN <<e, s>> ELSE <<s, e>>

\* _collect_valid_selections keeping the ranges of 0.05 s as well
_collect_valid_selections_lenient(rows, duration) ==
  LET Clamped(idx) == _clamp_range(rows[idx].data[1], rows[idx].data[2], duration)
      Candidates == [idx \in 1..Len(rows) |->
                       [idx |-> idx - 1, s |-> Clamped(idx)[1], e |-> Clamped(idx)[2]]]
      Kept(c) == /\ rows[c.idx + 1].checked
                 /\ rows[c.idx + 1].has
                 /\ (c.e - c.s) >= MinSegment
  IN  SelectSeq(Candidates, Kept)


\* _collect_valid_selections taking every row that carries data, ticked or not
_collect_valid_selections_all(rows, duration) ==
  LET Clamped(idx) == _clamp_range(rows[idx].data[1], rows[idx].data[2], duration)
      Candidates == [idx \in 1..Len(rows) |->
                       [idx |-> idx - 1, s |-> Clamped(idx)[1], e |-> Clamped(idx)[2]]]
      Kept(c) == rows[c.idx + 1].has /\ (c.e - c.s) > MinSegment
  IN  SelectSeq(Candidates, Kept)

\* _collect_valid_selections: the checked rows that carry data, in list order,
\* clamped to the duration, without those of 0.05 s or less
_collect_valid_selections(rows, duration) ==
  LET Clamped(idx) == _clamp_range(rows[idx].data[1], rows[idx].data[2], duration)
      Candidates == [idx \in 1..Len(rows) |->
                       [idx |-> idx - 1, s |-> Clamped(idx)[1], e |-> Clamped(idx)[2]]]
      Kept(c) == /\ rows[c.idx + 1].checked
                 /\ rows[c.idx + 1].has
                 /\ (c.e - c.s) > MinSegment
  IN  SelectSeq(Candidates, Kept)

\* a validator that unticks the rows it has taken
scene_list_after_collect_unticking(rows, duration) ==
  LET taken == { c.idx + 1 : c \in
                   { _collect_valid_selections(rows, duration)[k] :
                       k \in 1..Len(_collect_valid_selections(rows, duration)) } }
  IN  [i \in 1..Len(rows) |->
         IF i \in taken THEN [rows[i] EXCEPT !.checked = FALSE] ELSE rows[i]]

\* the rows of self.scene_list after a call of _collect_valid_selections: the
\* loop reads item.data and item.checkState and writes to no item
scene_list_after_collect(rows, duration) == rows


\* ------------------------------------------------------- export file names
\* os.path.splitext(os.path.basename(path))[0] of the paths the model imports,
\* as a sequence of characters
Basename(path) ==
  CASE path = "a.mp4" -> <<"a">>
    [] path = "b.mov" -> <<"b">>
    [] OTHER -> <<>>

DigitChars == <<"0", "1", "2", "3", "4", "5", "6", "7", "8", "9">>

\* str(n) for n >= 0
RECURSIVE Digits(_)
Digits(n) ==
  IF n < 10 THEN << DigitChars[n + 1] >>
  ELSE Append(Digits(n \div 10), DigitChars[(n % 10) + 1])

\* a format that does not pad
ZeroPad_none(n, w) == Digits(n)

\* format(n, "0{w}d") for n >= 0: zeros on the left up to width w, never cut
ZeroPad(n, w) ==
  LET d == Digits(n)
  IN  [i \in 1..(Max(w, Len(d)) - Len(d)) |-> "0"] \o d

\* pad with no minimum width and no regard to the scene count
ExportPad_none(scene_count) == 1

\* pad = max(2, len(str(scene_count)))
ExportPad(scene_count) == Max(2, Len(Digits(scene_count)))

\* f"{basename}_scene_{scene_num:0{pad}d}.mp4"
ExportName(basename, scene_num, scene_count) ==
  basename \o <<"_", "s", "c", "e", "n", "e", "_">>
           \o ZeroPad(scene_num, ExportPad(scene_count))
           \o <<".", "m", "p", "4">>

\* ------------------------------------------------------------- transcoder
\* what one ffmpeg invocation can come to: subprocess.run (or a file test)
\* raises, or it returns an exit code and leaves the destination absent, empty
\* or non-empty
TranscoderOutcomes ==
  { [raised |-> TRUE, returncode |-> 1, exists |-> FALSE, size |-> 0] }
  \cup { o \in [raised : {FALSE}, returncode : {0, 1}, exists : BOOLEAN,
                 size : {0, 1}] : o.size > 0 => o.exists }

\* the outcomes explored while the whole application runs: a clip written, and
\* ffmpeg exiting with an error
UsualOutcomes ==
  { [raised |-> FALSE, returncode |-> 0, exists |-> TRUE, size |-> 1],
    [raised |-> FALSE, returncode |-> 1, exists |-> FALSE, size |-> 0] }

\* the invocation is running
Pending == [raised |-> FALSE, returncode |-> -1, exists |-> FALSE, size |-> 0]

\* _run_ffmpeg_slice without its try/except: an exception leaves it
_run_ffmpeg_slice_uncaught(o) ==
  [raises |-> o.raised,
   ok |-> ~o.raised /\ o.returncode = 0 /\ o.exists /\ o.size > 0]

\* _run_ffmpeg_slice trusting the exit code alone
_run_ffmpeg_slice_exit_only(o) ==
  [raises |-> FALSE, ok |-> ~o.raised /\ o.returncode = 0]

\* _run_ffmpeg_slice: (ok, stderr) with the stderr text left out; an exception
\* of the invocation is caught and reported as not ok
_run_ffmpeg_slice(o) ==
  [raises |-> FALSE,
   ok |-> ~o.raised /\ o.returncode = 0 /\ o.exists /\ o.size > 0]

\* ------------------------------------------------------- events and jobs
NoPayload == [exc |-> FALSE, scenes |-> <<>>, requested |-> 0, okc |-> 0,
              failed |-> 0, errors |-> <<>>]

\* a payload given to report(): progress.emit
ProgressEvent(mode, done, total) ==
  [t |-> "progress", mode |-> mode, done |-> done, total |-> total,
   payload |-> NoPayload]

\* the argument of finished.emit: the job's result dict or the exception
FinishedEvent(payload) ==
  [t |-> "finished", mode |-> "", done |-> 0, total |-> 0, payload |-> payload]

ExceptionPayload == [NoPayload EXCEPT !.exc = TRUE]

DetectResult(scenes) == [NoPayload EXCEPT !.scenes = scenes]

\* a result dict that counts as requested only the items that were written
ExportResult_written(job) ==
  [NoPayload EXCEPT !.requested = job.okc, !.okc = job.okc,
                    !.failed = Len(job.errors), !.errors = job.errors]

\* the dict _export_job returns
ExportResult(job) ==
  [NoPayload EXCEPT !.requested = Len(job.sel), !.okc = job.okc,
                    !.failed = Len(job.errors), !.errors = job.errors]

\* Worker.run with the emit of the except branch lost: a job that raises ends
\* without a terminal event
Worker_run_silent(reports, payload) ==
  IF payload.exc THEN reports ELSE reports \o << FinishedEvent(payload) >>

\* Worker.run emitting finished before the job function's last report
Worker_run_early(reports, payload) == << FinishedEvent(payload) >> \o reports

\* Worker.run from the point where the job function ends: the events the job
\* function reported on its way out, then one finished signal carrying the
\* result (the function returned) or the exception (it raised)
Worker_run(reports, payload) == reports \o << FinishedEvent(payload) >>

\* a QThread + Worker pair as detect_scenes / export_clips create it
NewJob(kind, file, sel, scene_count, wd) ==
  [kind |-> kind, file |-> file, sel |-> sel, scene_count |-> scene_count,
   pc |-> "queued", pos |-> 0, okc |-> 0, errors |-> <<>>,
   outcome |-> "none", result |-> NoPayload,
   emitted |-> <<>>, chan |-> <<>>, handled |-> <<>>,
   wd |-> wd, logcalls |-> 0, logrun |-> <<>>,
   active |-> {}, calls |-> <<>>, stop |-> <<>>]

Emit(job, events) ==
  [job EXCEPT !.emitted = @ \o events, !.chan = @ \o events]

IsFinished(e) == e.t = "finished"

\* ----------------------------------------------------------------- threads
\* the thread of QApplication, in which AuraClipApp and its slots live; the
\* QThread created for job j is thread j
GuiThread == 0

\* on_finished and on_progress running in the QThread of their job
HandlerThread_worker(j) == j

\* the thread that runs on_progress / on_export_progress / on_finished of job
\* j: the closures are connected in the caller's thread and run there
HandlerThread(j) == GuiThread

\* the process runs: no exception has left a slot (PyQt6 ends the process with
\* qFatal when a slot raises and sys.excepthook is the default one)
Alive == app_state = "running"

\* thread t is not in the middle of a _log_run call
ThreadFree(t) ==
  \A i \in JobIds : jobs[i].logrun # <<>> => HandlerThread(i) # t

\* the terminal outcome of job j has been handled by on_finished
Delivered(j) == \E i \in 1..Len(jobs[j].handled) : IsFinished(jobs[j].handled[i])

\* ------------------------------------------------------------- run logger
EmptyStore == [json |-> [st |-> "absent", rows |-> <<>>],
               csv |-> [exists |-> FALSE, rows |-> <<>>]]

\* what runs/<kind>_log.json can hold: no file ("absent"), a JSON array of
\* entries ("array"), text that json.load rejects ("corrupt"), a falsy JSON value
\* that is not an array, such as null, {} or 0 ("falsy"), or a truthy JSON value
\* that is not an array, such as {"a": 1} ("object")
JsonStates == {"absent", "array", "corrupt", "falsy", "object"}

\* _log_run up to the value of `logs` before logs.append: os.makedirs, then
\* json.load(f) or [] under the inner `except Exception`
LogRead(store, io) ==
  IF io = "mkdir" THEN [exc |-> "OSError", list |-> TRUE, logs |-> <<>>]
  ELSE IF store.json.st = "absent" THEN [exc |-> "none", list |-> TRUE, logs |-> <<>>]
  ELSE IF io = "json_read" \/ store.json.st = "corrupt"
  THEN \* open or json.load raised: logs = []
       [exc |-> "none", list |-> TRUE, logs |-> <<>>]
  ELSE IF store.json.st = "array"
  THEN [exc |-> "none", list |-> TRUE, logs |-> store.json.rows]
  ELSE IF store.json.st = "falsy"
  THEN [exc |-> "none", list |-> TRUE, logs |-> <<>>]
  ELSE \* a truthy value that is not a list is kept as it is
       [exc |-> "none", list |-> FALSE, logs |-> <<>>]

\* _log_run from logs.append to the end of the try block, on the store as it
\* is when the writes are made
LogWrite(rd, store, entry, io) ==
  LET written == [st |-> "array", rows |-> Append(rd.logs, entry)]
  IN  IF rd.exc # "none" THEN [store |-> store, exc |-> rd.exc]
      ELSE IF ~rd.list
      THEN \* logs is a dict, a str or a number: logs.append raises
           [store |-> store, exc |-> "AttributeError"]
      ELSE IF io = "json_open" THEN [store |-> store, exc |-> "OSError"]
      ELSE IF io = "json_dump"
      THEN \* open(.., "w") truncated the file before the dump failed
           [store |-> [store EXCEPT !.json = [st |-> "corrupt", rows |-> <<>>]],
            exc |-> "OSError"]
      ELSE IF io = "csv"
      THEN [store |-> [store EXCEPT !.json = written], exc |-> "OSError"]
      ELSE [store |-> [json |-> written,
                       csv |-> [exists |-> TRUE,
                                rows |-> Append(store.csv.rows, entry)]],
            exc |-> "none"]

\* the try block of _log_run on the store of that kind, with the I/O fault the
\* environment injects: the store it leaves and the exception it ends with
LogRunTry(store, entry, io) == LogWrite(LogRead(store, io), store, entry, io)

\* _log_run with `except OSError` in place of `except Exception`
_log_run_narrow(store, entry, io) ==
  LET r == LogRunTry(store, entry, io)
  IN  [store |-> r.store,
       status |-> IF r.exc = "none" THEN "ok"
                  ELSE IF r.exc = "OSError" THEN "swallowed" ELSE "raised"]

\* the `except Exception` clause of _log_run: whatever the try block raised is
\* printed and swallowed; status "raised" is an exception leaving _log_run
LogOutcome(r) ==
  [store |-> r.store, status |-> IF r.exc = "none" THEN "ok" ELSE "swallowed"]

\* _log_run as one uninterrupted call
_log_run(store, entry, io) == LogOutcome(LogRunTry(store, entry, io))

LogEntry(j, file, kind) == [job |-> j, file |-> file, operation |-> kind]

\* --------------------------------------------------- restore-UI fragments
\* on_finished of detect_scenes, its first five statements
DetectFinishedRestore(u, cf) ==
  [de |-> TRUE, ee |-> (cf # NoFile), pr |-> _progress_done(u.pr),
   cur |-> restoreOverrideCursor(u.cur)]

\* the lambda given to QTimer.singleShot(60000, ...)
WatchdogRestore(u, cf) ==
  [de |-> TRUE, ee |-> (cf # NoFile), pr |-> _progress_done(u.pr),
   cur |-> restoreOverrideCursor(u.cur)]

\* on_finished of export_clips, its first five statements
ExportFinishedRestore(u) ==
  [de |-> TRUE, ee |-> TRUE, pr |-> _progress_done(u.pr),
   cur |-> restoreOverrideCursor(u.cur)]

SetUi(u) ==
  /\ detect_enabled' = u.de
  /\ export_enabled' = u.ee
  /\ progress' = u.pr
  /\ cursor' = u.cur

\* ------------------------------------------------------------------ Init
Init ==
  /\ SCENEDETECT_AVAILABLE \in BOOLEAN
  /\ current_file = NoFile
  /\ media_duration = 0
  /\ current_scenes = <<>>
  /\ scene_list = <<>>
  /\ ffmpeg_ok_result = "None"
  /\ detect_enabled = FALSE
  /\ export_enabled = FALSE
  /\ progress = [visible |-> FALSE, maximum |-> 100, value |-> -1]
  /\ cursor = 0
  /\ jobs = <<>>
  /\ detect_thread = 0
  /\ export_thread = 0
  /\ runs = [k \in Kinds |-> EmptyStore]
  /\ log_status = "idle"
  /\ app_state = "running"

UiVars == << detect_enabled, export_enabled, progress, cursor >>
MediaVars == << current_file, media_duration >>
SceneVars == << current_scenes, scene_list >>
JobVars == << jobs, detect_thread, export_thread >>
LogVars == << runs, log_status >>

\* ------------------------------------------------------------ user actions
\* import_video: the dialog is cancelled (file = NoFile) or returns a path
import_video(file, probed) ==
  IF file = NoFile
  THEN /\ detect_enabled' = FALSE
       /\ export_enabled' = FALSE
       /\ UNCHANGED << SCENEDETECT_AVAILABLE, app_state, MediaVars, SceneVars,
                       ffmpeg_ok_result, progress, cursor, JobVars, LogVars >>
  ELSE /\ current_file' = file
       /\ media_duration' = probed
       /\ detect_enabled' = TRUE
       /\ export_enabled' = TRUE
       /\ UNCHANGED << SCENEDETECT_AVAILABLE, app_state, SceneVars, ffmpeg_ok_result,
                       progress, cursor, JobVars, LogVars >>

ImportVideo ==
  /\ Alive
  /\ ThreadFree(GuiThread)
  /\ \/ import_video(NoFile, 0)
     \/ \E file \in Files, probed \in Durations : import_video(file, probed)

\* the user ticks or unticks the checkbox of a scene row
ToggleCheck ==
  \E i \in 1..Len(scene_list) :
    /\ Alive
    /\ ThreadFree(GuiThread)
    /\ scene_list[i].checkable
    /\ scene_list' = [scene_list EXCEPT ![i].checked = ~@]
    /\ UNCHANGED << SCENEDETECT_AVAILABLE, app_state, MediaVars, current_scenes,
                    ffmpeg_ok_result, UiVars, JobVars, LogVars >>

\* a menu request does nothing at all
Refused(why) ==
  UNCHANGED << SCENEDETECT_AVAILABLE, app_state, MediaVars, SceneVars, ffmpeg_ok_result,
               UiVars, JobVars, LogVars >>

\* detect_scenes, the slot of detect_action.triggered
detect_scenes ==
  IF current_file = NoFile THEN Refused("no_file")
  ELSE IF ~SCENEDETECT_AVAILABLE THEN Refused("no_library")
  ELSE /\ Len(jobs) < MaxJobs
       /\ progress' = _progress_busy(progress)
       /\ detect_enabled' = FALSE
       /\ export_enabled' = FALSE
       /\ cursor' = cursor + 1
       /\ jobs' = Append(jobs, NewJob("detect", current_file, <<>>, 0, "armed"))
       /\ detect_thread' = Len(jobs) + 1
       /\ UNCHANGED << SCENEDETECT_AVAILABLE, app_state, MediaVars, SceneVars,
                       ffmpeg_ok_result, export_thread, LogVars >>

\* Tools > Detect Scenes: a disabled QAction does not emit triggered
DetectRequest ==
  /\ Alive
  /\ ThreadFree(GuiThread)
  /\ IF detect_enabled THEN detect_scenes ELSE Refused("disabled")

\* export_clips, the slot of export_action.triggered
export_clips ==
  IF current_file = NoFile
  THEN /\ detect_enabled' = FALSE
       /\ export_enabled' = FALSE
       /\ UNCHANGED << SCENEDETECT_AVAILABLE, app_state, MediaVars, SceneVars,
                       ffmpeg_ok_result, progress, cursor, JobVars, LogVars >>
  ELSE IF current_scenes = <<>> \/ Len(scene_list) = 0
  THEN Refused("no_scenes")
  ELSE \E probe \in (IF ffmpeg_ok_result = "None" THEN {"True", "False"}
                                                  ELSE {ffmpeg_ok_result}) :
    LET clamped == _collect_valid_selections(scene_list, media_duration)
        \* the rows as the call of _collect_valid_selections leaves them
        collected == scene_list_after_collect(scene_list, media_duration)
        stop(res, rows) ==
          /\ ffmpeg_ok_result' = probe
          /\ scene_list' = rows
          /\ UNCHANGED << SCENEDETECT_AVAILABLE, app_state, MediaVars, current_scenes,
                          UiVars, JobVars, LogVars >>
    IN  IF probe = "False" THEN stop("no_ffmpeg", scene_list)
        ELSE IF media_duration <= MinSegment THEN stop("bad_duration", scene_list)
        ELSE IF clamped = <<>> THEN stop("no_selection", collected)
        ELSE \E dir \in ExportDirStates :
          IF dir = "uncreatable"
          THEN \* os.makedirs raises and nothing in export_clips catches it
               /\ ffmpeg_ok_result' = probe
               /\ scene_list' = collected
               /\ app_state' = "aborted"
               /\ UNCHANGED << SCENEDETECT_AVAILABLE, MediaVars, current_scenes,
                               UiVars, JobVars, LogVars >>
          ELSE IF dir = "readonly" THEN stop("unwritable", collected)
          ELSE /\ Len(jobs) < MaxJobs
               /\ ffmpeg_ok_result' = probe
               /\ scene_list' = collected
               /\ progress' = _progress_steps(progress, Len(clamped))
               /\ detect_enabled' = FALSE
               /\ export_enabled' = FALSE
               /\ cursor' = cursor + 1
               /\ jobs' = Append(jobs, NewJob("export", current_file, clamped,
                                              Len(collected), "none"))
               /\ export_thread' = Len(jobs) + 1
               /\ UNCHANGED << SCENEDETECT_AVAILABLE, app_state, MediaVars,
                               current_scenes, detect_thread, LogVars >>

\* Tools > Export Clips
ExportRequest ==
  /\ Alive
  /\ ThreadFree(GuiThread)
  /\ IF export_enabled THEN export_clips ELSE Refused("disabled")

\* ---------------------------------------------------------- worker threads
OtherVars == << SCENEDETECT_AVAILABLE, app_state, MediaVars, SceneVars, ffmpeg_ok_result,
                UiVars, detect_thread, export_thread, LogVars >>

\* a job function that shows the busy bar itself, from the worker thread
WorkerBegin_touching(j) ==
  /\ Alive
  /\ j \in JobIds
  /\ jobs[j].pc = "queued"
  /\ LET first == IF jobs[j].kind = "detect"
                  THEN ProgressEvent("start", 0, 0)
                  ELSE ProgressEvent("step", 0, Len(jobs[j].sel))
     IN  jobs' = [jobs EXCEPT ![j] = Emit([@ EXCEPT !.pc = "running"], <<first>>)]
  /\ progress' = _progress_busy(progress)
  /\ UNCHANGED << SCENEDETECT_AVAILABLE, app_state, MediaVars, SceneVars,
                  ffmpeg_ok_result, detect_enabled, export_enabled, cursor,
                  detect_thread, export_thread, LogVars >>


\* thread.started -> Worker.run -> the job function's first report()
WorkerBegin(j) ==
  /\ Alive
  /\ j \in JobIds
  /\ jobs[j].pc = "queued"
  /\ LET first == IF jobs[j].kind = "detect"
                  THEN ProgressEvent("start", 0, 0)
                  ELSE ProgressEvent("step", 0, Len(jobs[j].sel))
     IN  jobs' = [jobs EXCEPT ![j] = Emit([@ EXCEPT !.pc = "running"], <<first>>)]
  /\ UNCHANGED OtherVars

\* a transcoder started while another invocation of the job is still running
CanInvoke_parallel(job) == TRUE

\* the loop of _export_job calls run_ffmpeg_slice and waits for its return
\* before it goes on: the next invocation starts when none is running
CanInvoke(job) == job.active = {}

\* _export_job: an iteration of the loop over the selections computes out_path
\* and calls run_ffmpeg_slice
WorkerItem(j) ==
  /\ Alive
  /\ j \in JobIds
  /\ jobs[j].kind = "export"
  /\ jobs[j].pc = "running"
  /\ Len(jobs[j].calls) < Len(jobs[j].sel)
  /\ CanInvoke(jobs[j])
  /\ LET job == jobs[j]
         k == Len(job.calls) + 1
         scene_num == job.sel[k].idx + 1
         out_path == ExportName(Basename(job.file), scene_num, job.scene_count)
     IN  jobs' = [jobs EXCEPT ![j].active = @ \cup {k},
                              ![j].calls = Append(@, [pos |-> k,
                                                      scene_num |-> scene_num,
                                                      out_path |-> out_path,
                                                      o |-> Pending])]
  /\ UNCHANGED OtherVars

\* _export_job: run_ffmpeg_slice returns, the iteration counts the item and
\* reports; an exception leaving the call ends the job in Worker.run's except
WorkerItemReturn(j, outcomes) ==
  /\ Alive
  /\ j \in JobIds
  /\ jobs[j].kind = "export"
  /\ jobs[j].pc = "running"
  /\ \E k \in jobs[j].active, o \in outcomes :
       LET job == jobs[j]
           it == job.sel[k]
           scene_num == it.idx + 1
           r == _run_ffmpeg_slice(o)
           returned == [job EXCEPT !.active = @ \ {k}, !.calls[k].o = o]
           stepped == [returned EXCEPT
                         !.pos = @ + 1,
                         !.okc = IF r.ok THEN @ + 1 ELSE @,
                         !.errors = IF r.ok THEN @
                                    ELSE Append(@, <<scene_num, it.s, it.e>>)]
       IN  IF r.raises
           THEN jobs' = [jobs EXCEPT ![j] =
                           Emit([returned EXCEPT !.pc = "done",
                                                 !.outcome = "raised",
                                                 !.result = ExceptionPayload],
                                Worker_run(<<>>, ExceptionPayload))]
           ELSE jobs' = [jobs EXCEPT ![j] =
                           Emit(stepped, <<ProgressEvent("step", stepped.pos,
                                                         Len(job.sel))>>)]
  /\ UNCHANGED OtherVars

\* the job function returns and Worker.run emits finished(result)
WorkerReturn(j) ==
  /\ Alive
  /\ j \in JobIds
  /\ jobs[j].pc = "running"
  /\ IF jobs[j].kind = "detect"
     THEN \E scenes \in DetectorOutputs :
            jobs' = [jobs EXCEPT ![j] =
                       Emit([@ EXCEPT !.pc = "done", !.outcome = "returned",
                                      !.result = DetectResult(scenes)],
                            Worker_run(<<ProgressEvent("end", 0, 0)>>,
                                       DetectResult(scenes)))]
     ELSE /\ jobs[j].pos = Len(jobs[j].sel)
          /\ jobs' = [jobs EXCEPT ![j] =
                        Emit([@ EXCEPT !.pc = "done", !.outcome = "returned",
                                       !.result = ExportResult(jobs[j])],
                             Worker_run(<<>>, ExportResult(jobs[j])))]
  /\ UNCHANGED OtherVars

\* the detector raises and Worker.run emits finished(exception)
WorkerRaise(j) ==
  /\ Alive
  /\ j \in JobIds
  /\ jobs[j].kind = "detect"
  /\ jobs[j].pc = "running"
  /\ jobs' = [jobs EXCEPT ![j] =
                Emit([@ EXCEPT !.pc = "done", !.outcome = "raised",
                               !.result = ExceptionPayload],
                     Worker_run(<<>>, ExceptionPayload))]
  /\ UNCHANGED OtherVars

\* the blocking collaborator call (detector run, ffmpeg subprocess) never returns
WorkerHang(j) ==
  /\ Alive
  /\ j \in JobIds
  /\ jobs[j].pc = "running"
  /\ jobs[j].kind = "export" => jobs[j].active # {}
  /\ jobs' = [jobs EXCEPT ![j].pc = "hung"]
  /\ UNCHANGED OtherVars

\* ------------------------------------------------------- caller-side handlers
\* the row on_finished builds for one detected scene
SceneRow(scene, duration) ==
  [data |-> IF duration > 0 THEN _clamp_range(scene[1], scene[2], duration)
                            ELSE scene,
   has |-> TRUE, checked |-> FALSE, checkable |-> TRUE]

\* rows on_finished builds for a non-empty scene list
SceneRows(scenes, duration) ==
  [i \in 1..Len(scenes) |-> SceneRow(scenes[i], duration)]

\* the "No scenes detected." row
Placeholder == [data |-> <<0, 0>>, has |-> FALSE, checked |-> FALSE,
                checkable |-> FALSE]

\* on_progress of detect_scenes: pass
on_progress(j, payload) ==
  UNCHANGED << SCENEDETECT_AVAILABLE, app_state, MediaVars, SceneVars, ffmpeg_ok_result,
               UiVars, LogVars >>

\* on_export_progress of export_clips
on_export_progress(j, payload) ==
  LET total == Max(1, payload.total)
  IN  /\ progress' = SetValue(SetRange([progress EXCEPT !.visible = TRUE], total),
                              Min(payload.done, total))
      /\ UNCHANGED << SCENEDETECT_AVAILABLE, app_state, MediaVars, SceneVars,
                      ffmpeg_ok_result, detect_enabled, export_enabled, cursor,
                      LogVars >>

\* a call of self._log_run(kind, {...}) made while handling job j, up to the
\* read of the structured store
LogCall(j, kind, io) ==
  [kind |-> kind, entry |-> LogEntry(j, current_file, kind), io |-> io,
   rd |-> LogRead(runs[kind], io)]

\* on_finished of detect_scenes carrying the ticks of the old rows over to the
\* new rows
detect_on_finished_keeping(j, payload) ==
  /\ SetUi(DetectFinishedRestore(Ui, current_file))
  /\ IF payload.exc
     THEN UNCHANGED SceneVars
     ELSE /\ current_scenes' = payload.scenes
          /\ IF payload.scenes = <<>>
             THEN scene_list' = << Placeholder >>
             ELSE scene_list' =
                    [i \in 1..Len(payload.scenes) |->
                       [SceneRow(payload.scenes[i], media_duration) EXCEPT
                          !.checked = i <= Len(scene_list) /\ scene_list[i].checked]]
  /\ UNCHANGED << SCENEDETECT_AVAILABLE, app_state, MediaVars, ffmpeg_ok_result, LogVars >>


\* on_finished of detect_scenes clearing the list before it looks at the payload
detect_on_finished_clearing(j, payload) ==
  /\ SetUi(DetectFinishedRestore(Ui, current_file))
  /\ IF payload.exc
     THEN /\ current_scenes' = current_scenes
          /\ scene_list' = <<>>
     ELSE /\ current_scenes' = payload.scenes
          /\ IF payload.scenes = <<>>
             THEN scene_list' = << Placeholder >>
             ELSE scene_list' = SceneRows(payload.scenes, media_duration)
  /\ UNCHANGED << SCENEDETECT_AVAILABLE, app_state, MediaVars, ffmpeg_ok_result, LogVars >>


\* on_finished of detect_scenes
detect_on_finished(j, payload) ==
  /\ SetUi(DetectFinishedRestore(Ui, current_file))
  /\ IF payload.exc
     THEN UNCHANGED SceneVars
     ELSE /\ current_scenes' = payload.scenes
          /\ IF payload.scenes = <<>>
             THEN scene_list' = << Placeholder >>
             ELSE scene_list' = SceneRows(payload.scenes, media_duration)
  /\ UNCHANGED << SCENEDETECT_AVAILABLE, app_state, MediaVars, ffmpeg_ok_result, LogVars >>

\* the payloads for which on_finished of detect_scenes reaches self._log_run
DetectLogs(payload) == ~payload.exc /\ payload.scenes # <<>>

\* on_finished of export_clips
export_on_finished(j, payload) ==
  /\ SetUi(ExportFinishedRestore(Ui))
  /\ UNCHANGED << SCENEDETECT_AVAILABLE, app_state, MediaVars, SceneVars, ffmpeg_ok_result,
                  LogVars >>

\* the payloads for which on_finished of export_clips reaches self._log_run
ExportLogs(payload) == ~payload.exc

\* the next queued signal of job j reaches its handler; a handler that reaches
\* self._log_run is left inside that call, after the read of the store
Deliver(j) ==
  /\ Alive
  /\ j \in JobIds
  /\ jobs[j].chan # <<>>
  /\ ThreadFree(HandlerThread(j))
  /\ LET e == Head(jobs[j].chan)
         kind == jobs[j].kind
         calls == IF ~IsFinished(e) THEN 0
                  ELSE IF kind = "detect" /\ DetectLogs(e.payload) THEN 1
                  ELSE IF kind = "export" /\ ExportLogs(e.payload) THEN 1
                  ELSE 0
     IN  /\ \E io \in (IF calls = 1 THEN HandlerFaults ELSE {"none"}) :
              jobs' = [jobs EXCEPT ![j].chan = Tail(@),
                                   ![j].handled = Append(@, e),
                                   ![j].logcalls = @ + calls,
                                   ![j].logrun = IF calls = 1
                                                 THEN << LogCall(j, kind, io) >>
                                                 ELSE <<>>]
         /\ UNCHANGED << detect_thread, export_thread >>
         /\ IF IsFinished(e)
            THEN IF kind = "detect" THEN detect_on_finished(j, e.payload)
                                    ELSE export_on_finished(j, e.payload)
            ELSE IF kind = "detect" THEN on_progress(j, e)
                                    ELSE on_export_progress(j, e)

\* the _log_run call made by on_finished of job j runs from logs.append to its
\* end and on_finished returns
LogRunFinish(j) ==
  /\ Alive
  /\ j \in JobIds
  /\ jobs[j].logrun # <<>>
  /\ LET c == Head(jobs[j].logrun)
         r == LogOutcome(LogWrite(c.rd, runs[c.kind], c.entry, c.io))
     IN  /\ runs' = [runs EXCEPT ![c.kind] = r.store]
         /\ log_status' = r.status
  /\ jobs' = [jobs EXCEPT ![j].logrun = <<>>]
  /\ UNCHANGED << SCENEDETECT_AVAILABLE, app_state, MediaVars, SceneVars, ffmpeg_ok_result,
                  UiVars, detect_thread, export_thread >>

\* the QTimer.singleShot(60000, ...) armed by detect_scenes for job j fires
WatchdogFire(j) ==
  /\ Alive
  /\ j \in JobIds
  /\ jobs[j].wd = "armed"
  /\ \A i \in 1..(j - 1) : jobs[i].wd # "armed"
  /\ ThreadFree(GuiThread)
  /\ SetUi(WatchdogRestore(Ui, current_file))
  /\ jobs' = [jobs EXCEPT ![j].wd = IF Delivered(j) THEN "fired_delivered"
                                                    ELSE "fired_undelivered"]
  /\ UNCHANGED << SCENEDETECT_AVAILABLE, app_state, MediaVars, SceneVars, ffmpeg_ok_result,
                  detect_thread, export_thread, LogVars >>

\* ----------------------------------------------------------------- shutdown
\* what closeEvent can find behind a thread handle: no QThread ("unset"), a
\* thread that runs, a thread whose event loop has ended, or a wrapper whose
\* C++ object deleteLater has destroyed
ThreadConditions == {"unset", "running", "finished", "destroyed"}

\* the conditions the thread behind handle h can be in: a thread runs until the
\* quit queued behind on_finished is processed, and is destroyed after that
ConditionsOf(h) ==
  IF h = 0 THEN {"unset"}
  ELSE IF ~Delivered(h) THEN {"running"}
  ELSE {"running", "finished", "destroyed"}

\* _safe_stop of closeEvent: the calls it makes on the thread, whether an
\* exception leaves it, and whether it clears the handle
_safe_stop(cond) ==
  IF cond = "unset"
  THEN \* `if not t: return`
       [calls |-> <<>>, raised |-> FALSE, cleared |-> FALSE]
  ELSE IF cond = "running"
  THEN [calls |-> <<"requestInterruption", "quit", "wait">>, raised |-> FALSE,
        cleared |-> TRUE]
  ELSE \* isRunning() is False, or raises RuntimeError, which is caught
       [calls |-> <<>>, raised |-> FALSE, cleared |-> TRUE]

\* closeEvent: _safe_stop("_detect_thread"), _safe_stop("_export_thread"),
\* then QMainWindow.closeEvent
closeEvent ==
  /\ app_state \in {"running", "closing"}
  /\ ThreadFree(GuiThread)
  /\ \E dc \in ConditionsOf(detect_thread), ec \in ConditionsOf(export_thread) :
       LET d == _safe_stop(dc)
           e == IF d.raised THEN [calls |-> <<>>, raised |-> TRUE, cleared |-> FALSE]
                            ELSE _safe_stop(ec)
       IN  /\ jobs' = [j \in JobIds |->
                         IF j = detect_thread
                         THEN [jobs[j] EXCEPT !.stop = @ \o d.calls]
                         ELSE IF j = export_thread
                         THEN [jobs[j] EXCEPT !.stop = @ \o e.calls]
                         ELSE jobs[j]]
           /\ detect_thread' = IF d.cleared THEN 0 ELSE detect_thread
           /\ export_thread' = IF e.cleared THEN 0 ELSE export_thread
           /\ app_state' = IF d.raised \/ e.raised THEN "aborted" ELSE "closing"
  /\ UNCHANGED << SCENEDETECT_AVAILABLE, MediaVars, SceneVars, ffmpeg_ok_result,
                  UiVars, LogVars >>

\* ------------------------------------------------------------ specification
Next ==
  \/ ImportVideo
  \/ ToggleCheck
  \/ DetectRequest
  \/ ExportRequest
  \/ \E j \in 1..MaxJobs : WorkerBegin(j)
  \/ \E j \in 1..MaxJobs : WorkerItem(j)
  \/ \E j \in 1..MaxJobs : WorkerItemReturn(j, UsualOutcomes)
  \/ \E j \in 1..MaxJobs : WorkerReturn(j)
  \/ \E j \in 1..MaxJobs : WorkerRaise(j)
  \/ \E j \in 1..MaxJobs : WorkerHang(j)
  \/ \E j \in 1..MaxJobs : Deliver(j)
  \/ \E j \in 1..MaxJobs : LogRunFinish(j)
  \/ \E j \in 1..MaxJobs : WatchdogFire(j)

Spec == Init /\ [][Next]_vars

\* the scheduling the Qt event loops and the operating system give: a queued
\* signal is handled, an armed timer fires, a started thread runs its job to
\* its end unless the collaborator call blocks for ever (WorkerHang); the
\* user's requests are under no obligation
Fairness ==
  \A j \in 1..MaxJobs :
    /\ WF_vars(Deliver(j))
    /\ WF_vars(LogRunFinish(j))
    /\ WF_vars(WatchdogFire(j))
    /\ WF_vars(WorkerBegin(j))
    /\ WF_vars(WorkerItem(j) \/ WorkerItemReturn(j, UsualOutcomes)
                \/ WorkerReturn(j) \/ WorkerRaise(j) \/ WorkerHang(j))

FairSpec == Spec /\ Fairness

\* ------------------------------------------------- the run logger on its own
\* something outside the program leaves runs/<kind>_log.json unreadable
\* ("corrupt") or holding a JSON value that is not an array ("falsy", "object")
DamageStore ==
  \E kind \in Kinds, st \in {"corrupt", "falsy", "object"} :
    /\ runs[kind].json.st = "array"
    /\ runs' = [runs EXCEPT ![kind].json = [st |-> st, rows |-> <<>>]]
    /\ UNCHANGED << SCENEDETECT_AVAILABLE, app_state, MediaVars, SceneVars, ffmpeg_ok_result,
                    UiVars, JobVars, log_status >>

\* one call of _log_run with any kind, any entry and any fault
LogRunCall ==
  \E kind \in Kinds, j \in 1..MaxLogRows, file \in Files, io \in IOFaults :
    /\ Len(runs[kind].json.rows) < MaxLogRows
    /\ Len(runs[kind].csv.rows) < MaxLogRows
    /\ LET r == _log_run(runs[kind], LogEntry(j, file, kind), io)
       IN  /\ runs' = [runs EXCEPT ![kind] = r.store]
           /\ log_status' = r.status
    /\ UNCHANGED << SCENEDETECT_AVAILABLE, app_state, MediaVars, SceneVars, ffmpeg_ok_result,
                    UiVars, JobVars >>

LogNext == LogRunCall \/ DamageStore

LogSpec == Init /\ [][LogNext]_vars

\* ------------------------------------------------------ one export, followed
\* n scenes of length len, one after the other
UniformScenes(n, len) == [i \in 1..n |-> <<(i - 1) * len, i * len>>]

\* three scenes of 5 s, 4 s and 0.02 s
ScenarioScenes == << <<0, 500>>, <<500, 900>>, <<900, 902>> >>

\* scene lists a detection can have delivered: none at all, from one scene to
\* a hundred, scenes of 0.05 s and 0.06 s, scenes beyond the probed duration,
\* a list with a reversed pair, a negative start and an end far beyond the
\* duration, and the three scenes above
ExportSceneLists ==
  { <<>>, ScenarioScenes,
    UniformScenes(1, 400), UniformScenes(3, 400), UniformScenes(3, 5),
    UniformScenes(2, 6), UniformScenes(10, 90), UniformScenes(100, 9),
    << <<300, 100>>, <<-50, 3>>, <<940, 2000>> >> }

ExportFiles == {"a.mp4", "b.mov"}

\* the rows the user may have ticked in a list of n rows
CheckRows(n) == {1, 2, n - 1, n} \cap (1..n)

\* the record of a detection job that returned `scenes`, whose events have all
\* been handled and whose watchdog has fired since
DoneDetectJob(file, scenes) ==
  LET events == << ProgressEvent("start", 0, 0), ProgressEvent("end", 0, 0),
                   FinishedEvent(DetectResult(scenes)) >>
  IN  [NewJob("detect", file, <<>>, 0, "fired_delivered") EXCEPT
         !.pc = "done", !.outcome = "returned", !.result = DetectResult(scenes),
         !.emitted = events, !.handled = events,
         !.logcalls = IF DetectLogs(DetectResult(scenes)) THEN 1 ELSE 0]

\* the application after import_video, the state in which Tools > Export Clips
\* is requested: either no detection has been made, or one detection has been
\* handled (made when the probed duration was detected_with), its watchdog has
\* fired and the user has ticked rows
ExportInit ==
  \E file \in ExportFiles, scenes \in ExportSceneLists, detected_with \in Durations,
     detected \in BOOLEAN :
    \E checked \in SUBSET CheckRows(Len(scenes)) :
      /\ \/ Cardinality(checked) <= MaxChecked
         \/ scenes = ScenarioScenes /\ checked = 1..Len(scenes)
      /\ ~detected => scenes = <<>> /\ detected_with = 0
      /\ SCENEDETECT_AVAILABLE = TRUE
      /\ current_file = file
      /\ media_duration = 950
      /\ current_scenes = scenes
      /\ scene_list = IF ~detected THEN <<>>
                      ELSE IF scenes = <<>> THEN << Placeholder >>
                      ELSE [i \in 1..Len(scenes) |->
                              [SceneRows(scenes, detected_with)[i] EXCEPT
                                 !.checked = (i \in checked)]]
      /\ ffmpeg_ok_result = "None"
      /\ detect_enabled = TRUE
      /\ export_enabled = TRUE
      /\ progress = [visible |-> FALSE, maximum |-> 1, value |-> 0]
      /\ cursor = 0
      /\ jobs = IF detected THEN << DoneDetectJob(file, scenes) >> ELSE <<>>
      /\ detect_thread = IF detected THEN 1 ELSE 0
      /\ export_thread = 0
      /\ runs = [k \in Kinds |->
                   IF k = "detect" /\ detected /\ DetectLogs(DetectResult(scenes))
                   THEN _log_run(EmptyStore, LogEntry(1, file, "detect"), "none").store
                   ELSE EmptyStore]
      /\ log_status = IF detected /\ DetectLogs(DetectResult(scenes))
                      THEN "ok" ELSE "idle"
      /\ app_state = "running"

ExportNext ==
  \/ ExportRequest
  \/ \E j \in 1..MaxJobs : WorkerBegin(j)
  \/ \E j \in 1..MaxJobs : WorkerItem(j)
  \/ \E j \in 1..MaxJobs : WorkerItemReturn(j, TranscoderOutcomes)
  \/ \E j \in 1..MaxJobs : WorkerReturn(j)
  \/ \E j \in 1..MaxJobs : Deliver(j)
  \/ \E j \in 1..MaxJobs : LogRunFinish(j)

ExportSpec == ExportInit /\ [][ExportNext]_vars


\* ------------------------------------------------- the window is closed
\* the application as in Spec, with the user closing the window at any moment
CloseNext ==
  \/ ImportVideo
  \/ ToggleCheck
  \/ DetectRequest
  \/ ExportRequest
  \/ \E j \in 1..MaxJobs : WorkerBegin(j)
  \/ \E j \in 1..MaxJobs : WorkerItem(j)
  \/ \E j \in 1..MaxJobs : WorkerItemReturn(j, UsualOutcomes)
  \/ \E j \in 1..MaxJobs : WorkerReturn(j)
  \/ \E j \in 1..MaxJobs : WorkerRaise(j)
  \/ \E j \in 1..MaxJobs : WorkerHang(j)
  \/ \E j \in 1..MaxJobs : Deliver(j)
  \/ \E j \in 1..MaxJobs : LogRunFinish(j)
  \/ \E j \in 1..MaxJobs : WatchdogFire(j)
  \/ closeEvent

CloseSpec == Init /\ [][CloseNext]_vars


\* ------------------------------------------- a second video is imported
\* File > Import Video with the dialog returning one of two files
ReloadVideo ==
  /\ Alive
  /\ ThreadFree(GuiThread)
  /\ \E file \in ExportFiles, probed \in Durations : import_video(file, probed)

\* the application as in Spec, with two files the user can import
ReloadNext ==
  \/ ReloadVideo
  \/ ToggleCheck
  \/ DetectRequest
  \/ ExportRequest
  \/ \E j \in 1..MaxJobs : WorkerBegin(j)
  \/ \E j \in 1..MaxJobs : WorkerItem(j)
  \/ \E j \in 1..MaxJobs : WorkerItemReturn(j, UsualOutcomes)
  \/ \E j \in 1..MaxJobs : WorkerReturn(j)
  \/ \E j \in 1..MaxJobs : WorkerRaise(j)
  \/ \E j \in 1..MaxJobs : WorkerHang(j)
  \/ \E j \in 1..MaxJobs : Deliver(j)
  \/ \E j \in 1..MaxJobs : LogRunFinish(j)
  \/ \E j \in 1..MaxJobs : WatchdogFire(j)

ReloadSpec == Init /\ [][ReloadNext]_vars


\* ================================================================== claims
Undelivered(kind) == { j \in JobIds : jobs[j].kind = kind /\ ~Delivered(j) }

\* workers of a kind whose thread has been started and whose run has not ended
Executing(kind) ==
  { j \in JobIds : jobs[j].kind = kind /\ jobs[j].pc \in {"queued", "running", "hung"} }

WatchdogFired(j) == jobs[j].wd \in {"fired_delivered", "fired_undelivered"}

\* the step is the firing of the watchdog armed for job j
WatchdogStep(j) == j \in JobIds /\ jobs[j].wd = "armed" /\ jobs'[j].wd # "armed"

\* the step is on_finished handling the terminal outcome of job j
TerminalStep(j) == j \in JobIds /\ ~Delivered(j) /\ Delivered(j)'

\* the step is a request of this kind that was accepted and started a worker
StartStep(kind) == Len(jobs') = Len(jobs) + 1 /\ jobs'[Len(jobs')].kind = kind

FinishedCount(events) ==
  Cardinality({ i \in 1..Len(events) : IsFinished(events[i]) })

\* C1: at any time at most one job of each kind has been submitted without its
\* terminal outcome handled (a request made in that interval starts nothing), so
\* at most one worker of each kind is executing.
C1_SingleFlight ==
  \A kind \in Kinds :
    /\ Cardinality(Undelivered(kind)) <= 1
    /\ Cardinality(Executing(kind)) <= 1

\* C2: handling the terminal outcome of a job leaves the trigger of its kind
\* enabled, and a request that starts a worker of a kind is never one made while
\* an earlier job of that kind still awaits the handling of its terminal outcome.
C2_Resubmission ==
  [][ /\ \A j \in JobIds :
           TerminalStep(j) =>
             IF jobs[j].kind = "detect" THEN detect_enabled' ELSE export_enabled'
      /\ \A kind \in Kinds : StartStep(kind) => Undelivered(kind) = {} ]_vars

\* C3: a run of Worker.run has emitted no finished signal before it ends and
\* exactly one when it has ended, carrying the result if the job function
\* returned and the exception if it raised.
C3_OneTerminal ==
  \A j \in JobIds :
    LET job == jobs[j]
    IN  IF job.pc = "done"
        THEN /\ FinishedCount(job.emitted) = 1
             /\ job.emitted[Len(job.emitted)] = FinishedEvent(job.result)
             /\ job.result.exc <=> (job.outcome = "raised")
        ELSE FinishedCount(job.emitted) = 0

\* a job function has raised and its run has ended
C3_Witness ==
  \E j \in JobIds : jobs[j].pc = "done" /\ jobs[j].outcome = "raised"

\* C4: the events the handlers of a job have handled, followed by those still
\* queued, are the events its worker emitted, in that order and each once; the
\* terminal outcome is the last event emitted, so every progress event is
\* handled before it.
C4_OrderedDelivery ==
  \A j \in JobIds :
    LET job == jobs[j]
    IN  /\ job.handled \o job.chan = job.emitted
        /\ \A i \in 1..Len(job.emitted) :
             IsFinished(job.emitted[i]) => i = Len(job.emitted)
        /\ Delivered(j) =>
             /\ job.chan = <<>>
             /\ \A i \in 1..Len(job.emitted) :
                  ~IsFinished(job.emitted[i]) => job.handled[i] = job.emitted[i]

\* the terminal outcome of a job was handled after at least two progress events
C4_Witness ==
  \E j \in JobIds : Delivered(j) /\ Len(jobs[j].handled) >= 3

\* C5: a watchdog that fires before the terminal outcome of its detection job is
\* handled hides the progress bar and enables both triggers and leaves the
\* worker running; when that outcome is handled later, the handler has logged it
\* to the detect run log exactly once.
C5_WatchdogThenCompletion ==
  [][ \A j \in JobIds :
        /\ (WatchdogStep(j) /\ ~Delivered(j)) =>
             /\ ~progress'.visible
             /\ detect_enabled' /\ export_enabled'
             /\ jobs'[j].pc = jobs[j].pc
        /\ (TerminalStep(j) /\ jobs[j].wd = "fired_undelivered") =>
             jobs'[j].logcalls = 1 ]_vars

\* C6: the watchdog of a job whose terminal outcome has been handled changes
\* neither the enablement of the triggers, nor the progress bar, nor the
\* override cursor.
C6_WatchdogOnlyUndelivered ==
  [][ \A j \in JobIds :
        (WatchdogStep(j) /\ Delivered(j)) => UNCHANGED UiVars ]_vars

\* the terminal handler of job j or the watchdog armed at its submission has run
Restored(j) == j \in JobIds /\ (Delivered(j) \/ WatchdogFired(j))

\* C7: after any job is submitted, its terminal handler or a watchdog armed at
\* its submission eventually runs and clears the busy state, for as long as the
\* application is running (nothing is owed once the process has gone).
C7_CallerLiveness ==
  \A j \in 1..MaxJobs : (j \in JobIds) ~> (Restored(j) \/ ~Alive)

\* C8: while a detection job awaits both its watchdog and its terminal handler,
\* running both (in either order) leaves the triggers, the progress bar and the
\* override cursor as running the terminal handler alone does.
C8_IdempotentRestore ==
  \A j \in JobIds :
    (jobs[j].kind = "detect" /\ jobs[j].wd = "armed" /\ ~Delivered(j)) =>
      LET finished == DetectFinishedRestore(Ui, current_file)
      IN  /\ DetectFinishedRestore(WatchdogRestore(Ui, current_file), current_file)
               = finished
          /\ WatchdogRestore(finished, current_file) = finished

\* C9: every job whose terminal outcome has been handled, success or failure,
\* has had one entry logged for it.
C9_OneLogEntryPerJob ==
  \A j \in JobIds : Delivered(j) => jobs[j].logcalls = 1

\* C10: no call of _log_run, whatever the kind, the entry, the state of the
\* store and the I/O fault, ends with an exception leaving _log_run.
C10_LoggerNeverRaises == log_status # "raised"

\* a call of _log_run has failed and returned normally, and a store holds a
\* JSON object (the case in which logs.append raises)
C10_Witness ==
  \E kind \in Kinds : runs[kind].json.st = "object" /\ log_status = "swallowed"

\* a is an initial segment of b
IsPrefix(a, b) == Len(a) <= Len(b) /\ SubSeq(b, 1, Len(a)) = a

\* C11: a log call made without I/O fault on a structured store that is
\* unreadable or holds a JSON value that is not an array treats the store as
\* empty: afterwards the structured store is an array holding the new entry and
\* the tabular store ends with the new entry.
C11_CorruptStoreAppends ==
  \A kind \in Kinds, file \in Files :
    runs[kind].json.st \in {"corrupt", "falsy", "object"} =>
      LET entry == LogEntry(1, file, kind)
          r == _log_run(runs[kind], entry, "none")
      IN  /\ r.status = "ok"
          /\ r.store.json = [st |-> "array", rows |-> <<entry>>]
          /\ r.store.csv = [exists |-> TRUE,
                            rows |-> Append(runs[kind].csv.rows, entry)]

\* C12: whatever the store holds and whatever happens to the I/O of the call,
\* a log call leaves every entry of both stores where it was and adds at most
\* one entry at the end of each.
C12_AppendOnly ==
  \A kind \in Kinds, file \in Files, io \in IOFaults :
    LET before == runs[kind]
        after == _log_run(before, LogEntry(1, file, kind), io).store
    IN  /\ IsPrefix(before.json.rows, after.json.rows)
        /\ Len(after.json.rows) <= Len(before.json.rows) + 1
        /\ IsPrefix(before.csv.rows, after.csv.rows)
        /\ Len(after.csv.rows) <= Len(before.csv.rows) + 1

\* the jobs whose on_finished is inside a _log_run call
LogRunning == { j \in JobIds : jobs[j].logrun # <<>> }

ExportJobs == { j \in JobIds : jobs[j].kind = "export" }

\* the transcoder exited with code zero and left a non-empty destination file
ItemOk(o) == ~o.raised /\ o.returncode = 0 /\ o.exists /\ o.size > 0

\* the invocations of a job that have returned with a clip written
Succeeded(job) == { k \in 1..Len(job.calls) : ItemOk(job.calls[k].o) }

\* the scene numbers of the errors list of a job
ErrorScenes(job) == { job.errors[i][1] : i \in 1..Len(job.errors) }

\* C14: an export job that has ended has returned (it has not raised), and its
\* payload has requested = number of selections, ok = number of invocations
\* that succeeded, failed = length of errors, and ok + failed = requested,
\* whatever each invocation came to, a raising invocation included.
C14_ExportAccounting ==
  \A j \in ExportJobs :
    jobs[j].pc = "done" =>
      LET job == jobs[j]
          payload == job.result
      IN  /\ job.outcome = "returned"
          /\ ~payload.exc
          /\ job.emitted[Len(job.emitted)] = FinishedEvent(payload)
          /\ payload.requested = Len(job.sel)
          /\ payload.okc = Cardinality(Succeeded(job))
          /\ payload.failed = Len(payload.errors)
          /\ payload.okc + payload.failed = payload.requested

\* an export of two selections has ended, one invocation having raised and the
\* other having written its clip
C14_Witness ==
  \E j \in ExportJobs :
    /\ jobs[j].pc = "done"
    /\ Len(jobs[j].sel) = 2
    /\ \E k \in 1..2 : jobs[j].calls[k].o.raised
    /\ \E k \in 1..2 : ItemOk(jobs[j].calls[k].o)

\* C15: in the payload of an ended export every item that is not in the errors
\* list had exit code zero and a destination file that exists and is not
\* empty; and when no invocation succeeded, ok = 0 and failed = requested.
C15_NoFalseSuccess ==
  \A j \in ExportJobs :
    jobs[j].pc = "done" =>
      LET job == jobs[j]
      IN  /\ \A k \in 1..Len(job.calls) :
               job.calls[k].scene_num \notin ErrorScenes(job) =>
                 /\ job.calls[k].o.returncode = 0
                 /\ job.calls[k].o.exists
                 /\ job.calls[k].o.size > 0
          /\ Succeeded(job) = {} =>
               /\ job.result.okc = 0
               /\ job.result.failed = job.result.requested

\* an export has ended in which ffmpeg exited with code zero and left no
\* clip, or an empty one, and no item succeeded
C15_Witness ==
  \E j \in ExportJobs :
    /\ jobs[j].pc = "done"
    /\ Succeeded(jobs[j]) = {}
    /\ \E k \in 1..Len(jobs[j].calls) :
         /\ jobs[j].calls[k].o.returncode = 0
         /\ ~jobs[j].calls[k].o.raised
         /\ jobs[j].calls[k].o.size = 0

\* the progress events a job has emitted
Reports(job) == SelectSeq(job.emitted, LAMBDA e : ~IsFinished(e))

\* the events of an export job are one report before the first item and one
\* after every item that has returned, the i-th with done = i - 1 and total =
\* the number of selections, so that the last report of an ended job has
\* done = total
ReportsOk(job) ==
  LET ev == Reports(job)
  IN  /\ job.pc # "queued" => Len(ev) = job.pos + 1
      /\ \A i \in 1..Len(ev) :
           /\ ev[i].mode = "step"
           /\ ev[i].done = i - 1
           /\ ev[i].total = Len(job.sel)
      /\ job.pc = "done" => ev[Len(ev)].done = Len(job.sel)

\* C16: an export job reports once after every item, done going up by one and
\* total being the number of selections, its last report having done = total;
\* and from its submission to the handling of its terminal outcome the value
\* of the progress bar never goes down, and it equals the maximum when the
\* terminal outcome is handled.
C16_ExportProgress ==
  [][ \A j \in ExportJobs :
        /\ ReportsOk(jobs[j])
        /\ ~Delivered(j) =>
             IF TerminalStep(j) THEN progress.value = progress.maximum
                                ELSE progress'.value >= progress.value ]_vars

\* C17: the invocations an export job has made are those of the first
\* selections of its list, one each and in list order; at most one is running,
\* and it is the last one made, every earlier one having returned; an ended
\* job has made one invocation for every selection.
C17_SequentialExport ==
  \A j \in ExportJobs :
    LET job == jobs[j]
        n == Len(job.calls)
    IN  /\ n <= Len(job.sel)
        /\ \A k \in 1..n :
             /\ job.calls[k].pos = k
             /\ job.calls[k].scene_num = job.sel[k].idx + 1
             /\ (job.calls[k].o = Pending) <=> (k \in job.active)
        /\ Cardinality(job.active) <= 1
        /\ job.active \subseteq {n}
        /\ job.pos = n - Cardinality(job.active)
        /\ job.pc = "done" => n = Len(job.sel) /\ job.active = {}

\* the second invocation of an export of two selections is running
C17_Witness ==
  \E j \in ExportJobs :
    /\ Len(jobs[j].sel) = 2
    /\ jobs[j].active = {2}
    /\ jobs[j].calls[1].o # Pending

\* characters of file names in the order of their code points
CodeOrder == <<".", "0", "1", "2", "3", "4", "5", "6", "7", "8", "9", "_",
               "a", "b", "c", "e", "m", "n", "p", "s">>

CharCode(c) == CHOOSE i \in 1..Len(CodeOrder) : CodeOrder[i] = c

\* a sorts before b in the lexicographic order of code points
LexLess(a, b) ==
  \/ Len(a) < Len(b) /\ SubSeq(b, 1, Len(a)) = a
  \/ \E i \in 1..Min(Len(a), Len(b)) :
       /\ SubSeq(a, 1, i - 1) = SubSeq(b, 1, i - 1)
       /\ CharCode(a[i]) < CharCode(b[i])

\* base names, ordinals and scene counts the naming is examined on
NameBasenames ==
  { <<"a">>, <<"b">>, <<"a", "_", "s", "c", "e", "n", "e", "_", "0", "1">> }
NameNumbers == {1, 2, 9, 10, 11, 99, 100, 101}

\* the width of the ordinal field for a scene count
FieldWidth(scene_count) == Max(2, Len(Digits(scene_count)))

\* C18 (as the code has it): the name an export gives to an item is
\* ExportName of the base name of the job's file, the item's scene number and
\* the job's scene count; and a triple (basename, ordinal, scene_count) with
\* 1 <= ordinal <= scene_count yields that same name exactly when it has the
\* same base name, the same ordinal and a scene count of the same field width
\* max(2, digits).
C18_NamesInjectiveUpToWidth ==
  \A j \in ExportJobs :
    \A k \in 1..Len(jobs[j].calls) :
      LET job == jobs[j]
          call == job.calls[k]
      IN  /\ call.out_path =
               ExportName(Basename(job.file), call.scene_num, job.scene_count)
          /\ \A b \in NameBasenames, n \in NameNumbers, c \in NameNumbers :
               n <= c =>
               ((ExportName(b, n, c) = call.out_path) <=>
                 /\ b = Basename(job.file)
                 /\ n = call.scene_num
                 /\ FieldWidth(c) = FieldWidth(job.scene_count))

\* C18 as stated: a triple (basename, ordinal, scene_count) with
\* 1 <= ordinal <= scene_count that yields the name an export gave to an item
\* is the triple of that item.
C18_NamesInjective ==
  \A j \in ExportJobs :
    \A k \in 1..Len(jobs[j].calls) :
      \A b \in NameBasenames, n \in NameNumbers, c \in NameNumbers :
        (n <= c /\ ExportName(b, n, c) = jobs[j].calls[k].out_path) =>
          /\ b = Basename(jobs[j].file)
          /\ n = jobs[j].calls[k].scene_num
          /\ c = jobs[j].scene_count

\* an export from a list of one hundred scenes has named the clip of scene 100
C18_Witness ==
  \E j \in ExportJobs :
    /\ jobs[j].scene_count = 100
    /\ \E k \in 1..Len(jobs[j].calls) : jobs[j].calls[k].scene_num = 100

\* C19: the scene numbers of an export lie between 1 and its scene count; for
\* ordinals in that range the ordinal field of the name has the width
\* max(2, digits of the scene count), and the name of a smaller ordinal sorts
\* before the name of a larger one.
C19_LexicographicNaming ==
  \A j \in ExportJobs :
    LET job == jobs[j]
        b == Basename(job.file)
        Name(n) == ExportName(b, n, job.scene_count)
        Field(n) == SubSeq(Name(n), Len(b) + 8, Len(Name(n)) - 4)
        ordinals == NameNumbers \cap (1..job.scene_count)
    IN  /\ \A k \in 1..Len(job.sel) : job.sel[k].idx + 1 \in 1..job.scene_count
        /\ \A n \in ordinals : Len(Field(n)) = FieldWidth(job.scene_count)
        /\ \A m, n \in ordinals : m < n => LexLess(Name(m), Name(n))
        /\ \A k, l \in 1..Len(job.calls) :
             job.calls[k].scene_num < job.calls[l].scene_num =>
               LexLess(job.calls[k].out_path, job.calls[l].out_path)

\* an export from a list of one hundred scenes has named the clips of scene 2
\* and of scene 100
C19_Witness ==
  \E j \in ExportJobs :
    /\ jobs[j].scene_count = 100
    /\ Len(jobs[j].calls) = 2
    /\ jobs[j].calls[1].scene_num = 2
    /\ jobs[j].calls[2].scene_num = 100

\* durations the validator is examined with
ValidatorDurations == {0, 6, 100, 950}

WellFormed(sel, duration) ==
  /\ 0 <= sel.s
  /\ sel.s <= sel.e
  /\ sel.e <= duration
  /\ sel.e - sel.s > MinSegment

\* C20: whatever the rows of the scene list, their ticks and the duration,
\* every selection the validator returns has 0 <= start <= end <= duration
\* and end - start > 0.05 s; and so has every selection of every export job.
C20_ValidatedSelections ==
  /\ \A d \in ValidatorDurations :
       LET sels == _collect_valid_selections(scene_list, d)
       IN  \A k \in 1..Len(sels) : WellFormed(sels[k], d)
  /\ \A j \in ExportJobs :
       \A k \in 1..Len(jobs[j].sel) : WellFormed(jobs[j].sel[k], media_duration)

\* an export was started from ticked rows of which one was dropped as too
\* short and another was cut down to the duration
C20_Witness ==
  \E j \in ExportJobs :
    /\ Len(jobs[j].sel) <
         Cardinality({ i \in 1..Len(scene_list) : scene_list[i].checked })
    /\ \E k \in 1..Len(jobs[j].sel) :
         /\ jobs[j].sel[k].e = media_duration
         /\ scene_list[jobs[j].sel[k].idx + 1].data[2] > media_duration


\* the length of the range of row i after clamping to the duration
ClampedLength(rows, i, duration) ==
  LET c == _clamp_range(rows[i].data[1], rows[i].data[2], duration)
  IN  c[2] - c[1]

\* sels lists rows of `rows` in strictly increasing index, each a ticked row
\* that carries scene data, and a ticked row that carries data is missing from
\* sels only if its clamped length is 0.05 s or less
OrderAndMembership(sels, rows, duration) ==
  /\ \A k \in 1..Len(sels) :
       /\ sels[k].idx + 1 \in 1..Len(rows)
       /\ rows[sels[k].idx + 1].checked
       /\ rows[sels[k].idx + 1].has
  /\ \A k, l \in 1..Len(sels) : k < l => sels[k].idx < sels[l].idx
  /\ \A i \in 1..Len(rows) :
       (rows[i].checked /\ rows[i].has
          /\ \A k \in 1..Len(sels) : sels[k].idx # i - 1)
         => ClampedLength(rows, i, duration) <= MinSegment

\* C21: whatever the rows, their ticks and the duration, the selections the
\* validator returns are in strictly increasing scene index, each index is that
\* of a ticked row carrying scene data, no index appears twice, and a ticked
\* scene is absent only if its clamped length is 0.05 s or less; the
\* selections of an export job are those the validator returned for the list.
C21_OrderAndMembership ==
  /\ \A d \in ValidatorDurations :
       OrderAndMembership(_collect_valid_selections(scene_list, d), scene_list, d)
  /\ \A j \in ExportJobs :
       /\ jobs[j].sel = _collect_valid_selections(scene_list, media_duration)
       /\ OrderAndMembership(jobs[j].sel, scene_list, media_duration)

\* an export was started with two rows ticked, the first of them kept, the
\* second dropped for its length, and an unticked row left out
C21_Witness ==
  \E j \in ExportJobs :
    /\ Len(jobs[j].sel) = 1
    /\ \E i, k \in 1..Len(scene_list) :
         /\ i < k
         /\ scene_list[i].checked /\ scene_list[k].checked
         /\ jobs[j].sel[1].idx = i - 1
    /\ \E i \in 1..Len(scene_list) : ~scene_list[i].checked


\* a call of _collect_valid_selections has been made in this step: the export
\* request got as far as the validator and was refused there or later, or it
\* submitted its job
ValidatorCalled ==
  /\ export_enabled
  /\ current_file # NoFile
  /\ current_scenes # <<>> /\ Len(scene_list) > 0
  /\ media_duration > MinSegment
  /\ ffmpeg_ok_result' = "True"
  /\ ThreadFree(GuiThread)
  /\ jobs' = jobs \/ (Len(jobs') = Len(jobs) + 1 /\ jobs'[Len(jobs')].kind = "export")

\* the rows of the two lists have the same number, the same stored (start,
\* end) data and the same check state
SameRows(before, after) ==
  /\ Len(after) = Len(before)
  /\ \A i \in 1..Len(before) :
       /\ after[i].data = before[i].data
       /\ after[i].has = before[i].has
       /\ after[i].checked = before[i].checked

\* C22: the rows of the scene list after a call of the validator have the
\* same number, the same stored (start, end) data and the same check state as
\* before it, for every duration and in every export request that reaches the
\* validator.
C22_ValidatorKeepsRows ==
  [][ /\ \A d \in ValidatorDurations :
           SameRows(scene_list, scene_list_after_collect(scene_list, d))
      /\ ValidatorCalled => SameRows(scene_list, scene_list') ]_vars

\* an export submitted from two ticked rows that the validator both took: the
\* two rows are still ticked
C22_Witness ==
  \E j \in ExportJobs :
    /\ Len(jobs[j].sel) = 2
    /\ \A k \in 1..2 : scene_list[jobs[j].sel[k].idx + 1].checked


\* no ticked row that carries scene data is longer than 0.05 s after clamping:
\* the list is empty, or no row is ticked, or it holds the placeholder row
\* only, or every ticked range is too short
NothingValid(rows, duration) ==
  \A i \in 1..Len(rows) :
    (rows[i].checked /\ rows[i].has) => ClampedLength(rows, i, duration) <= MinSegment

\* C23: with an empty scene list, with no row ticked, with only the
\* placeholder row, or with every ticked range 0.05 s or shorter after
\* clamping, the validator returns the empty list, and an export request made
\* in such a state creates no job.
C23_NothingValid ==
  [][ /\ \A d \in ValidatorDurations :
           /\ _collect_valid_selections(<<>>, d) = <<>>
           /\ _collect_valid_selections(<< Placeholder >>, d) = <<>>
           /\ NothingValid(scene_list, d) =>
                _collect_valid_selections(scene_list, d) = <<>>
      /\ NothingValid(scene_list, media_duration) =>
           /\ Len(jobs') = Len(jobs)
           /\ export_thread' = export_thread
           /\ UNCHANGED UiVars ]_vars

\* an export was requested with rows ticked that are all 0.05 s long: ffmpeg
\* has been probed and no export job exists
C23_Witness ==
  /\ ffmpeg_ok_result = "True"
  /\ ExportJobs = {}
  /\ \E i \in 1..Len(scene_list) : scene_list[i].checked
  /\ NothingValid(scene_list, media_duration)


\* the scenario's list is shown with every row ticked and the media lasts 9.5 s
ScenarioState ==
  /\ current_scenes = ScenarioScenes
  /\ media_duration = 950
  /\ Len(scene_list) = 3
  /\ \A i \in 1..3 : scene_list[i].checked /\ scene_list[i].data = ScenarioScenes[i]

\* C24: with detected scenes (0, 5), (5, 9), (9, 9.02), a duration of 9.5 s and
\* all rows ticked, the validator returns the first two scenes and an export
\* is given those two; when the transcoder writes the first and fails the
\* second, the ended job's payload has requested = 2, ok = 1, failed = 1 and
\* one error entry, whose ordinal is 2.
C24_Scenario ==
  ScenarioState =>
    /\ _collect_valid_selections(scene_list, media_duration) =
         << [idx |-> 0, s |-> 0, e |-> 500], [idx |-> 1, s |-> 500, e |-> 900] >>
    /\ \A j \in ExportJobs :
         /\ jobs[j].sel = _collect_valid_selections(scene_list, media_duration)
         /\ (/\ jobs[j].pc = "done"
             /\ ItemOk(jobs[j].calls[1].o)
             /\ ~ItemOk(jobs[j].calls[2].o))
              => /\ jobs[j].outcome = "returned"
                 /\ jobs[j].result.requested = 2
                 /\ jobs[j].result.okc = 1
                 /\ jobs[j].result.failed = 1
                 /\ Len(jobs[j].result.errors) = 1
                 /\ jobs[j].result.errors[1][1] = 2

\* the scenario's export has ended, its first clip written and its second
\* invocation having exited with an error
C24_Witness ==
  /\ ScenarioState
  /\ \E j \in ExportJobs :
       /\ jobs[j].pc = "done"
       /\ ItemOk(jobs[j].calls[1].o)
       /\ jobs[j].calls[2].o.returncode = 1


DetectJobs == { j \in JobIds : jobs[j].kind = "detect" }

\* the positions in the events emitted by a job of its progress events of a mode
ModeAt(job, mode) ==
  { i \in 1..Len(job.emitted) :
      job.emitted[i].t = "progress" /\ job.emitted[i].mode = mode }

\* C25: a detection job emits at most one start and at most one end progress
\* event, the start first; and a run that has come to its terminal outcome has
\* emitted exactly one start and exactly one end, the start before the end and
\* both before the terminal outcome.
C25_DetectProgressEvents ==
  \A j \in DetectJobs :
    LET job == jobs[j]
        starts == ModeAt(job, "start")
        ends == ModeAt(job, "end")
    IN  /\ Cardinality(starts) <= 1
        /\ Cardinality(ends) <= 1
        /\ job.pc # "queued" => starts = {1}
        /\ job.pc = "done" =>
             /\ ends = {2}
             /\ Len(job.emitted) = 3
             /\ IsFinished(job.emitted[3])


\* the step is on_finished of detect_scenes handling an exception of job j
FailureStep(j) ==
  /\ TerminalStep(j)
  /\ jobs[j].kind = "detect"
  /\ Head(jobs[j].chan).payload.exc

\* C26: a detection whose job function raised has emitted one terminal event,
\* carrying the exception, and nothing after it; the step that handles it
\* leaves the stored scenes and the rows of the scene list as they were, leaves
\* both triggers enabled, creates no job and makes no log call; and a
\* detection that has ended never runs again.
C26_DetectFailureTerminal ==
  [][ \A j \in DetectJobs :
        /\ jobs[j].outcome = "raised" =>
             /\ jobs[j].pc = "done"
             /\ FinishedCount(jobs[j].emitted) = 1
             /\ jobs[j].emitted[Len(jobs[j].emitted)] = FinishedEvent(ExceptionPayload)
        /\ FailureStep(j) =>
             /\ UNCHANGED SceneVars
             /\ detect_enabled' /\ export_enabled'
             /\ Len(jobs') = Len(jobs)
             /\ jobs'[j].logcalls = jobs[j].logcalls
             /\ UNCHANGED LogVars
        /\ jobs[j].pc = "done" =>
             /\ jobs'[j].pc = "done"
             /\ jobs'[j].emitted = jobs[j].emitted ]_vars

\* a second detection has failed and its failure has been handled while the
\* list shows the scenes of the first
C26_Witness ==
  \E i, j \in DetectJobs :
    /\ i < j
    /\ jobs[i].outcome = "returned" /\ Delivered(i)
    /\ jobs[j].outcome = "raised" /\ Delivered(j)
    /\ current_scenes # <<>>
    /\ Len(scene_list) = Len(current_scenes)
    /\ scene_list[1].has


\* the preconditions of detect_scenes hold
DetectPreconditions == current_file # NoFile /\ SCENEDETECT_AVAILABLE

\* the preconditions of export_clips that the state decides hold: the
\* transcoder's probe and the state of the export directory are the
\* environment's
ExportPreconditions ==
  /\ current_file # NoFile
  /\ current_scenes # <<>>
  /\ Len(scene_list) > 0
  /\ ffmpeg_ok_result # "False"
  /\ media_duration > MinSegment
  /\ _collect_valid_selections(scene_list, media_duration) # <<>>

\* the step set the busy indicator: the override cursor or a visible bar
BusyStep ==
  \/ cursor' > cursor
  \/ progress'.visible /\ ~progress.visible

\* C27: a step creates a worker thread of a kind, arms a watchdog or sets the
\* busy indicator only in a request of that kind whose preconditions hold (a
\* source is loaded, the detector is available; scenes exist, the transcoder
\* is runnable, the duration exceeds 0.05 s, a valid selection exists, the
\* export directory is writable); and every request returns: no exception
\* leaves detect_scenes or export_clips.
C27_PreconditionErrors ==
  [][ /\ StartStep("detect") => DetectPreconditions
      /\ StartStep("export") => ExportPreconditions /\ ffmpeg_ok_result' = "True"
      /\ (\E j \in 1..Len(jobs') :
            jobs'[j].wd = "armed" /\ (j \in JobIds => jobs[j].wd # "armed"))
           => StartStep("detect")
      /\ (BusyStep /\ Len(jobs') = Len(jobs)) =>
           \E j \in ExportJobs : jobs'[j].handled # jobs[j].handled
      /\ (detect_thread' # detect_thread) => StartStep("detect")
      /\ (export_thread' # export_thread) => StartStep("export")
      /\ app_state' # "aborted" ]_vars


\* the step is closeEvent running to its end
CloseStep == app_state' = "closing"

\* the calls closeEvent makes on a thread it finds running, in their order
StopCalls == <<"requestInterruption", "quit", "wait">>

\* C28: closeEvent never raises; after it both thread handles are cleared; and
\* every worker thread that is still running when it starts has been asked to
\* interrupt and to quit, in that order, before the one bounded wait.
C28_ShutdownTeardown ==
  [][ /\ app_state = "closing" => app_state' # "aborted"
      /\ CloseStep =>
           /\ detect_thread' = 0
           /\ export_thread' = 0
           /\ \A j \in JobIds :
                /\ ~Delivered(j) => jobs'[j].stop = StopCalls
                /\ jobs'[j].stop \in {<<>>, StopCalls} ]_vars


\* the step is one of the worker thread of job j: Worker.run or the job
\* function moved on, started or ended a transcoder invocation, or emitted
WorkerThreadStep(j) ==
  /\ j \in JobIds
  /\ \/ jobs'[j].pc # jobs[j].pc
     \/ jobs'[j].emitted # jobs[j].emitted
     \/ jobs'[j].calls # jobs[j].calls
     \/ jobs'[j].active # jobs[j].active
     \/ jobs'[j].pos # jobs[j].pos

\* the step is a progress or terminal handler of job j handling an event
HandlerStep(j) == j \in JobIds /\ jobs'[j].handled # jobs[j].handled

\* the caller-owned state: triggers, progress bar, cursor, scene list and
\* stored scenes
CallerState == << UiVars, SceneVars >>

SuccessStep(j) ==
  /\ TerminalStep(j)
  /\ jobs[j].kind = "detect"
  /\ ~Head(jobs[j].chan).payload.exc

\* the rows of the list are those of the stored scenes: one row for each
\* stored scene, or the placeholder row when a detection found none
RowsOfStoredScenes ==
  IF current_scenes = <<>>
  THEN scene_list \in { <<>>, << Placeholder >> }
  ELSE /\ Len(scene_list) = Len(current_scenes)
       /\ \A i \in 1..Len(scene_list) : scene_list[i].has

\* C30: the step that handles a successful detection stores the detected
\* scenes and puts in the list one new row for each of them, none ticked (the
\* placeholder when there is none); between two such steps the rows change
\* only by the user's ticks; and an export that begins is given the
\* selections the validator returns for the list as it is then, each the
\* index of a ticked row of the stored scenes.
C30_ScenesReplaced ==
  [][ /\ \A j \in DetectJobs :
           SuccessStep(j) =>
             LET scenes == Head(jobs[j].chan).payload.scenes
             IN  /\ current_scenes' = scenes
                 /\ scene_list' = IF scenes = <<>> THEN << Placeholder >>
                                  ELSE SceneRows(scenes, media_duration)
                 /\ \A i \in 1..Len(scene_list') : ~scene_list'[i].checked
      /\ (\A j \in DetectJobs : ~SuccessStep(j)) =>
           /\ current_scenes' = current_scenes
           /\ Len(scene_list') = Len(scene_list)
           /\ \A i \in 1..Len(scene_list) :
                /\ scene_list'[i].data = scene_list[i].data
                /\ scene_list'[i].has = scene_list[i].has
      /\ RowsOfStoredScenes
      /\ StartStep("export") =>
           LET sel == jobs'[Len(jobs')].sel
           IN  /\ sel = _collect_valid_selections(scene_list, media_duration)
               /\ sel # <<>>
               /\ \A k \in 1..Len(sel) :
                    /\ sel[k].idx + 1 \in 1..Len(current_scenes)
                    /\ scene_list[sel[k].idx + 1].checked ]_vars

\* a second detection has been handled after a first one that found scenes,
\* and its rows are in the list, none ticked
C30_Witness ==
  \E i, j \in DetectJobs :
    /\ i < j
    /\ jobs[i].outcome = "returned" /\ Delivered(i) /\ jobs[i].result.scenes # <<>>
    /\ jobs[j].outcome = "returned" /\ Delivered(j) /\ jobs[j].result.scenes # <<>>
    /\ current_scenes = jobs[j].result.scenes
    /\ \A k \in 1..Len(scene_list) : ~scene_list[k].checked


\* job j has been submitted and neither has its terminal outcome been handled
\* nor has a watchdog armed at its submission fired
InFlight(j) == j \in JobIds /\ ~Delivered(j) /\ ~WatchdogFired(j)

\* C31: while a detection or export job is in flight (submitted, its terminal
\* outcome not handled, its watchdog not fired) the detect trigger and the
\* export trigger are both disabled, whatever the caller does in between
\* (importing a video or cancelling the import dialog included), and a
\* detection and an export are never in flight at the same time.
C31_TriggersDisabledInFlight ==
  /\ (\E j \in JobIds : InFlight(j)) => (~detect_enabled /\ ~export_enabled)
  /\ \A d, e \in JobIds :
       (InFlight(d) /\ InFlight(e)) => jobs[d].kind = jobs[e].kind


\* job j is a detection of `file` whose result, the scenes now stored, has been
\* handled
DetectedOn(j, file) ==
  /\ j \in JobIds
  /\ jobs[j].kind = "detect"
  /\ jobs[j].file = file
  /\ Delivered(j)
  /\ ~jobs[j].result.exc
  /\ jobs[j].result.scenes = current_scenes

\* C32: a request that starts an export job exports scenes that a detection run
\* on the file now loaded has produced: after another file is imported, the
\* scenes and ticked rows left from the earlier file start no export until a
\* detection of the new file has been handled.
C32_ScenesBelongToFile ==
  [][ StartStep("export") =>
        \E j \in JobIds : DetectedOn(j, current_file) ]_vars


\* the entries of both stores of `kind`
LoggedEntries(kind) ==
  { runs[kind].json.rows[i] : i \in 1..Len(runs[kind].json.rows) }
    \cup { runs[kind].csv.rows[i] : i \in 1..Len(runs[kind].csv.rows) }

\* C33: the file name recorded in a run-log entry is the name of the source file
\* its job was submitted with, also when another video is imported between the
\* submission and the handling of the terminal outcome.
C33_LogAttribution ==
  \A kind \in Kinds : \A entry \in LoggedEntries(kind) :
    entry.job \in JobIds /\ entry.file = jobs[entry.job].file


\* C34: after any sequence of log calls for one kind, also when the structured
\* store was corrupt or a write failed part-way, the structured (JSON) store
\* and the tabular (CSV) store hold the same entries in the same order (stated
\* of the stores as log calls leave them: a structured store that something
\* else has damaged since the last call is not compared).
C34_StoreParity ==
  \A kind \in Kinds :
    runs[kind].json.st \in {"absent", "array"} =>
      runs[kind].json.rows = runs[kind].csv.rows


\* the job whose QThread self._detect_thread / self._export_thread refers to
HandleOf(kind) == IF kind = "detect" THEN detect_thread ELSE export_thread

\* the worker thread of job j has been signalled to stop by closeEvent
Signalled(j) ==
  \E a, b \in 1..Len(jobs[j].stop) :
    a < b /\ jobs[j].stop[a] = "requestInterruption" /\ jobs[j].stop[b] = "quit"

\* C35: while the window is open, the thread handle of each kind refers to the
\* only thread of that kind whose worker can still be running; and once
\* closeEvent has run, every worker thread that was running at shutdown has
\* been asked to interrupt and to quit: none is left unsignalled.
C35_ShutdownReachesWorkers ==
  /\ Alive => \A kind \in Kinds : Executing(kind) \subseteq {HandleOf(kind)}
  /\ app_state = "closing" =>
       \A kind \in Kinds : \A j \in Executing(kind) : Signalled(j)

====
